---- MODULE Spec2Model ----
(***************************************************************************)
(* Model of backend/main.py: the itinerary stream emitter.                 *)
(*                                                                         *)
(* plan_trip wraps one ai_stream_generator per request in a                *)
(* StreamingResponse.  The generator is an async generator: it runs from   *)
(* one suspension point (a yield or an await asyncio.sleep) to the next,   *)
(* and nothing else of the process runs in between (one event loop).  Each *)
(* action below is one such stretch of one generator.                      *)
(*                                                                         *)
(* Python values are modelled with a type tag:                             *)
(*   str    [t |-> "str",   s |-> ...]   int   [t |-> "int",   n |-> ...]  *)
(*   float  [t |-> "float", m |-> ...]   dict  [t |-> "dict",  items |-> ] *)
(*   list   [t |-> "list",  items |-> ...]  where json.dumps is given one  *)
(* A dict keeps its items in insertion order, as a sequence of <<key,      *)
(* value>> pairs; a list is a sequence.  A str is written in its ASCII     *)
(* spelling, each non-ASCII character as \uXXXX (the spelling json.dumps   *)
(* gives it); a float f is the integer f * Scale.                          *)
(***************************************************************************)
EXTENDS Integers, Sequences, FiniteSets, TLC

\* Number of requests that may be in flight together.
NumRuns == 2

\* Number of decimal digits kept of a float (35.7719 is 357719).
FloatDigits == 4

Scale == 10 ^ FloatDigits

Runs == 1..NumRuns

\* The prompt query parameter of request r (any str is accepted): the empty
\* string for the first, then "Tokyo 3 days", "Tokyo 4 days", ...
Prompt(r) == IF r = 1 THEN "" ELSE "Tokyo " \o ToString(r + 1) \o " days"

PyStr(s) == [t |-> "str", s |-> s]

PyInt(n) == [t |-> "int", n |-> n]

PyFloat(m) == [t |-> "float", m |-> m]

PyDict(items) == [t |-> "dict", items |-> items]

PyList(items) == [t |-> "list", items |-> items]

\* d[key] of a Python dict.
Get(d, key) ==
  LET i == CHOOSE j \in 1..Len(d.items) : d.items[j][1] = key
  IN d.items[i][2]

Location(name, lat, lng, description) ==
  PyDict(<< <<"name", PyStr(name)>>, <<"lat", PyFloat(lat)>>,
          <<"lng", PyFloat(lng)>>, <<"description", PyStr(description)>> >>)

DayPlan(day, summary, locations) ==
  PyDict(<< <<"day", PyInt(day)>>, <<"summary", PyStr(summary)>>,
          <<"locations", locations>> >>)

MOCK_TOKYO_TRIP ==
  << DayPlan(1, "\\u62b5\\u9054\\u6771\\u4eac\\uff0c\\u63a2\\u7d22\\u6dfa\\u8349\\u6587\\u5316",
       << Location("\\u6210\\u7530\\u6a5f\\u5834", 357719, 1403929,
                   "\\u62b5\\u9054\\u65e5\\u672c"),
          Location("\\u6dfa\\u8349\\u5bfa", 357147, 1397967,
                   "\\u6771\\u4eac\\u6700\\u53e4\\u8001\\u7684\\u5bfa\\u5edf\\uff0c\\u96f7\\u9580\\u6253\\u5361"),
          Location("\\u6674\\u7a7a\\u5854", 357100, 1398107,
                   "\\u4fef\\u77b0\\u6771\\u4eac\\u591c\\u666f") >>),
     DayPlan(2, "\\u6f6e\\u6d41\\u8207\\u8cfc\\u7269\\u7684\\u4e00\\u5929",
       << Location("\\u6f80\\u8c37\\u5341\\u5b57\\u8def\\u53e3", 356594, 1397005,
                   "\\u4e16\\u754c\\u4e0a\\u6700\\u7e41\\u5fd9\\u7684\\u5341\\u5b57\\u8def\\u53e3"),
          Location("\\u660e\\u6cbb\\u795e\\u5bae", 356763, 1396993,
                   "\\u5e02\\u4e2d\\u5fc3\\u7684\\u68ee\\u6797\\u7da0\\u6d32"),
          Location("\\u65b0\\u5bbf\\u5fa1\\u82d1", 356851, 1397100,
                   "\\u8457\\u540d\\u7684\\u8cde\\u6afb\\u52dd\\u5730") >>) >>

(***************************************************************************)
(* json.dumps and json.loads.  A JSON text is a sequence of tokens:        *)
(* punctuation, a string literal, or a number literal (its integer part    *)
(* and the digits after the point; none for an int).                       *)
(***************************************************************************)
Punct(c) == [k |-> "punct", s |-> c]

StringTok(s) == [k |-> "string", s |-> s]

NumberTok(int, frac) == [k |-> "number", int |-> int, frac |-> frac]

NL == Punct("\n")

RECURSIVE StripZeros(_)
\* repr(float) prints the shortest digits: no trailing zero but the first.
StripZeros(ds) ==
  IF Len(ds) > 1 /\ ds[Len(ds)] = 0 THEN StripZeros(SubSeq(ds, 1, Len(ds) - 1))
  ELSE ds

\* The digits of f, 0 <= f < Scale, after the decimal point.
FracDigits(f) ==
  StripZeros([i \in 1..FloatDigits |-> (f \div (10 ^ (FloatDigits - i))) % 10])

RECURSIVE FracValue(_, _)
\* The value, in units of 1/Scale, of the digits ds from position i on.
FracValue(ds, i) ==
  IF i > Len(ds) THEN 0
  ELSE ds[i] * (10 ^ (FloatDigits - i)) + FracValue(ds, i + 1)

RECURSIVE json_dumps(_)
RECURSIVE dumps_items(_, _)
RECURSIVE dumps_elements(_, _)
json_dumps(obj) ==
  CASE obj.t = "str" -> << StringTok(obj.s) >>
    [] obj.t = "int" -> << NumberTok(obj.n, << >>) >>
    [] obj.t = "float" -> << NumberTok(obj.m \div Scale, FracDigits(obj.m % Scale)) >>
    [] obj.t = "dict" -> << Punct("{") >> \o dumps_items(obj.items, 1) \o << Punct("}") >>
    [] obj.t = "list" -> << Punct("[") >> \o dumps_elements(obj.items, 1) \o << Punct("]") >>

dumps_items(items, i) ==
  IF i > Len(items) THEN << >>
  ELSE (IF i > 1 THEN << Punct(",") >> ELSE << >>)
       \o << StringTok(items[i][1]), Punct(":") >>
       \o json_dumps(items[i][2])
       \o dumps_items(items, i + 1)

dumps_elements(items, i) ==
  IF i > Len(items) THEN << >>
  ELSE (IF i > 1 THEN << Punct(",") >> ELSE << >>)
       \o json_dumps(items[i])
       \o dumps_elements(items, i + 1)

IsPunct(tok, c) == tok.k = "punct" /\ tok.s = c

RECURSIVE ParseValue(_, _)
RECURSIVE ParseMembers(_, _, _)
RECURSIVE ParseElements(_, _, _)
\* The value that starts at token i, and the position after it.
ParseValue(toks, i) ==
  LET h == toks[i] IN
  CASE h.k = "string" -> [val |-> PyStr(h.s), next |-> i + 1]
    [] h.k = "number" ->
         [val |-> IF h.frac = << >> THEN PyInt(h.int)
                  ELSE PyFloat(h.int * Scale + FracValue(h.frac, 1)),
          next |-> i + 1]
    [] IsPunct(h, "{") -> ParseMembers(toks, i + 1, << >>)
    [] IsPunct(h, "[") -> ParseElements(toks, i + 1, << >>)

\* The members of an object from token i on, after the members acc.
ParseMembers(toks, i, acc) ==
  IF IsPunct(toks[i], "}") THEN [val |-> PyDict(acc), next |-> i + 1]
  ELSE LET k == IF IsPunct(toks[i], ",") THEN i + 1 ELSE i
           pv == ParseValue(toks, k + 2)
       IN ParseMembers(toks, pv.next, Append(acc, << toks[k].s, pv.val >>))

\* The elements of an array from token i on, after the elements acc.
ParseElements(toks, i, acc) ==
  IF IsPunct(toks[i], "]") THEN [val |-> PyList(acc), next |-> i + 1]
  ELSE LET k == IF IsPunct(toks[i], ",") THEN i + 1 ELSE i
           pv == ParseValue(toks, k)
       IN ParseElements(toks, pv.next, Append(acc, pv.val))

(***************************************************************************)
(* The events of ai_stream_generator, each one line: json.dumps(...) + \n  *)
(***************************************************************************)
Line(obj) == json_dumps(obj) \o << NL >>

StatusEvent(content) ==
  Line(PyDict(<< <<"type", PyStr("status")>>, <<"content", PyStr(content)>> >>))

\* "Analysing your travel needs..."
Event72 ==
  StatusEvent("\\u6b63\\u5728\\u5206\\u6790\\u60a8\\u7684\\u65c5\\u904a\\u9700\\u6c42...")

\* "Searching popular Tokyo sights..."
Event75 ==
  StatusEvent("\\u6b63\\u5728\\u641c\\u5c0b\\u6771\\u4eac\\u71b1\\u9580\\u666f\\u9ede...")

Event80 ==
  Line(PyDict(<< <<"type", PyStr("control")>>, <<"action", PyStr("fly_to")>>,
               <<"data", PyDict(<< <<"lat", PyFloat(356895)>>, <<"lng", PyFloat(1396917)>>,
                                 <<"zoom", PyInt(10)>> >>)>> >>))

\* f"Planning day {day}: {summary}"
Event89(day_plan) ==
  StatusEvent("\\u6b63\\u5728\\u898f\\u5283\\u7b2c " \o ToString(Get(day_plan, "day").n)
              \o " \\u5929\\uff1a" \o Get(day_plan, "summary").s)

\* Event104 with the day counted from 0, as an index of the loop would be.
Event104ZeroBased(day_plan, loc) ==
  Line(PyDict(<< <<"type", PyStr("data")>>, <<"day", PyInt(Get(day_plan, "day").n - 1)>>,
               <<"location", loc>>, <<"summary", Get(day_plan, "summary")>> >>))

\* Event104 with the first location of the day in place of the newest.
Event104FirstLoc(day_plan, loc) ==
  Line(PyDict(<< <<"type", PyStr("data")>>, <<"day", Get(day_plan, "day")>>,
               <<"location", Get(day_plan, "locations")[1]>>,
               <<"summary", Get(day_plan, "summary")>> >>))

Event104(day_plan, loc) ==
  Line(PyDict(<< <<"type", PyStr("data")>>, <<"day", Get(day_plan, "day")>>,
               <<"location", loc>>, <<"summary", Get(day_plan, "summary")>> >>))

\* "Itinerary planned!"
Event106 ==
  StatusEvent("\\u884c\\u7a0b\\u898f\\u5283\\u5b8c\\u6210\\uff01")

RECURSIVE AllLocationLines(_, _)
\* The data lines of the days d.. of the list, from location i of day d on.
AllLocationLines(d, i) ==
  IF d > Len(MOCK_TOKYO_TRIP) THEN {}
  ELSE IF i > Len(Get(MOCK_TOKYO_TRIP[d], "locations")) THEN AllLocationLines(d + 1, 1)
  ELSE {Event104(MOCK_TOKYO_TRIP[d], Get(MOCK_TOKYO_TRIP[d], "locations")[i])}
       \cup AllLocationLines(d, i + 1)

\* The lines the generator is written to emit.
ScriptedLines ==
  {Event72, Event75, Event80, Event106}
    \cup {Event89(MOCK_TOKYO_TRIP[d]) : d \in 1..Len(MOCK_TOKYO_TRIP)}
    \cup AllLocationLines(1, 1)

RECURSIVE Tabulate(_)
\* ParseValue tabulated over a set of lines.
Tabulate(lines) ==
  IF lines = {} THEN << >>
  ELSE LET l == CHOOSE x \in lines : TRUE
       IN (l :> ParseValue(l, 1).val) @@ Tabulate(lines \ {l})

ParsedScriptedLines == Tabulate(ScriptedLines)

\* json.loads of one line of the response body: ParseValue(line, 1).val, looked
\* up for the scripted lines instead of parsed again in every state.
json_loads(line) ==
  IF line \in ScriptedLines THEN ParsedScriptedLines[line]
  ELSE ParseValue(line, 1).val

(***************************************************************************)
(* State.                                                                  *)
(*   trip      the module-level list MOCK_TOKYO_TRIP                       *)
(*   pc        per request, where its generator is suspended:              *)
(*             "idle" (no request yet), "created" (plan_trip has made the  *)
(*             generator, nothing has run), "Y<n>" (at the yield of line   *)
(*             n, its event handed over), "S<n>" (in the asyncio.sleep of  *)
(*             line n), "done" (the generator returned), "closed" (the     *)
(*             caller closed the connection and the generator was          *)
(*             cancelled where it was suspended)                           *)
(*   prompt    the argument of ai_stream_generator                         *)
(*   day_idx   position of the outer for loop in MOCK_TOKYO_TRIP           *)
(*   loc_idx   position of the inner for loop in day_plan['locations']     *)
(*   current_locations   the local list of line 92                         *)
(*   out       the lines written to the request's response body            *)
(*   naps      the suspensions of the generator so far: the delay, in      *)
(*             tenths of a time unit, and the number of events emitted     *)
(*             before it                                                   *)
(***************************************************************************)
VARIABLES trip, pc, prompt, day_idx, loc_idx, current_locations, out, naps

vars == << trip, pc, prompt, day_idx, loc_idx, current_locations, out, naps >>

Init ==
  /\ trip = MOCK_TOKYO_TRIP
  /\ pc = [r \in Runs |-> "idle"]
  /\ prompt = [r \in Runs |-> ""]
  /\ day_idx = [r \in Runs |-> 0]
  /\ loc_idx = [r \in Runs |-> 0]
  /\ current_locations = [r \in Runs |-> << >>]
  /\ out = [r \in Runs |-> << >>]
  /\ naps = [r \in Runs |-> << >>]

\* The day_plan and loc the loops of run r are at.
day_plan(r) == trip[day_idx[r]]

locations(r) == Get(day_plan(r), "locations")

\* asyncio.sleep(delay), delay in tenths of a time unit.
Sleep(r, delay) ==
  naps' = [naps EXCEPT ![r] = Append(@, [delay |-> delay, after |-> Len(out[r])])]

\* yield line: the line goes to the response body of run r.
Yield(r, line) == out' = [out EXCEPT ![r] = Append(@, line)]

\* Line 92, current_locations = [], runs when the generator resumes from the
\* yield of line 89.
AfterLine92(r) == IF pc[r] = "Y89" THEN << >> ELSE current_locations[r]

\* The inner loop has no further loc (also: the outer loop has not begun).
InnerLoopOver(r) ==
  \/ pc[r] = "S85"
  \/ pc[r] \in {"Y89", "Y104"} /\ loc_idx[r] = Len(locations(r))

\* plan_trip handing out one module-level generator again: the new request
\* goes on from the place the request before it had reached.
plan_tripResumed(r, p) ==
  /\ pc[r] = "idle"
  /\ pc' = [pc EXCEPT ![r] = "created"]
  /\ prompt' = [prompt EXCEPT ![r] = p]
  /\ day_idx' = [day_idx EXCEPT ![r] = IF r > 1 THEN day_idx[r - 1] ELSE @]
  /\ loc_idx' = [loc_idx EXCEPT ![r] = IF r > 1 THEN loc_idx[r - 1] ELSE @]
  /\ UNCHANGED << trip, current_locations, out, naps >>

\* POST /api/plan?prompt=p: the generator object is created, nothing runs yet.
plan_trip(r, p) ==
  /\ pc[r] = "idle"
  /\ pc' = [pc EXCEPT ![r] = "created"]
  /\ prompt' = [prompt EXCEPT ![r] = p]
  /\ UNCHANGED << trip, day_idx, loc_idx, current_locations, out, naps >>

\* Yield72 with the prompt echoed in the status text.
Yield72Echo(r) ==
  /\ pc[r] = "created"
  /\ Yield(r, StatusEvent(prompt[r]))
  /\ pc' = [pc EXCEPT ![r] = "Y72"]
  /\ UNCHANGED << trip, prompt, day_idx, loc_idx, current_locations, naps >>

\* Line 72: the first status event.
Yield72(r) ==
  /\ pc[r] = "created"
  /\ Yield(r, Event72)
  /\ pc' = [pc EXCEPT ![r] = "Y72"]
  /\ UNCHANGED << trip, prompt, day_idx, loc_idx, current_locations, naps >>

\* Line 73: await asyncio.sleep(1).
Sleep73(r) ==
  /\ pc[r] = "Y72"
  /\ Sleep(r, 10)
  /\ pc' = [pc EXCEPT ![r] = "S73"]
  /\ UNCHANGED << trip, prompt, day_idx, loc_idx, current_locations, out >>

\* Line 75: the sleep is over; the second status event.
Yield75(r) ==
  /\ pc[r] = "S73"
  /\ Yield(r, Event75)
  /\ pc' = [pc EXCEPT ![r] = "Y75"]
  /\ UNCHANGED << trip, prompt, day_idx, loc_idx, current_locations, naps >>

\* Line 76: await asyncio.sleep(1).
Sleep76(r) ==
  /\ pc[r] = "Y75"
  /\ Sleep(r, 10)
  /\ pc' = [pc EXCEPT ![r] = "S76"]
  /\ UNCHANGED << trip, prompt, day_idx, loc_idx, current_locations, out >>

\* Yield80 with the control event left out.
Yield80NoControl(r) ==
  /\ pc[r] = "S76"
  /\ pc' = [pc EXCEPT ![r] = "Y80"]
  /\ UNCHANGED << trip, prompt, day_idx, loc_idx, current_locations, out, naps >>

\* Lines 80-84: the control event.
Yield80(r) ==
  /\ pc[r] = "S76"
  /\ Yield(r, Event80)
  /\ pc' = [pc EXCEPT ![r] = "Y80"]
  /\ UNCHANGED << trip, prompt, day_idx, loc_idx, current_locations, naps >>

\* Sleep85 with a pause of one unit, as after the status events.
Sleep85OneUnit(r) ==
  /\ pc[r] = "Y80"
  /\ Sleep(r, 10)
  /\ pc' = [pc EXCEPT ![r] = "S85"]
  /\ UNCHANGED << trip, prompt, day_idx, loc_idx, current_locations, out >>

\* Line 85: await asyncio.sleep(1.5).
Sleep85(r) ==
  /\ pc[r] = "Y80"
  /\ Sleep(r, 15)
  /\ pc' = [pc EXCEPT ![r] = "S85"]
  /\ UNCHANGED << trip, prompt, day_idx, loc_idx, current_locations, out >>

\* Yield89 with the day's status event left out.
Yield89Silent(r) ==
  /\ InnerLoopOver(r)
  /\ day_idx[r] < Len(trip)
  /\ day_idx' = [day_idx EXCEPT ![r] = @ + 1]
  /\ loc_idx' = [loc_idx EXCEPT ![r] = 0]
  /\ current_locations' = [current_locations EXCEPT ![r] = AfterLine92(r)]
  /\ pc' = [pc EXCEPT ![r] = "Y89"]
  /\ UNCHANGED << trip, prompt, out, naps >>

\* Lines 88-89: the outer loop takes the next day_plan and announces it.
Yield89(r) ==
  /\ InnerLoopOver(r)
  /\ day_idx[r] < Len(trip)
  /\ day_idx' = [day_idx EXCEPT ![r] = @ + 1]
  /\ loc_idx' = [loc_idx EXCEPT ![r] = 0]
  /\ current_locations' = [current_locations EXCEPT ![r] = AfterLine92(r)]
  /\ Yield(r, Event89(trip[day_idx[r] + 1]))
  /\ pc' = [pc EXCEPT ![r] = "Y89"]
  /\ UNCHANGED << trip, prompt, naps >>

\* Sleep94 with the await left out: the data event follows at once.
Sleep94NoSleep(r) ==
  /\ pc[r] \in {"Y89", "Y104"}
  /\ loc_idx[r] < Len(locations(r))
  /\ loc_idx' = [loc_idx EXCEPT ![r] = @ + 1]
  /\ current_locations' = [current_locations EXCEPT ![r] = AfterLine92(r)]
  /\ pc' = [pc EXCEPT ![r] = "S94"]
  /\ UNCHANGED << trip, prompt, day_idx, out, naps >>

\* Sleep94 with the inner loop starting at the second location.
Sleep94SkipFirst(r) ==
  /\ pc[r] \in {"Y89", "Y104"}
  /\ loc_idx[r] < Len(locations(r))
  /\ loc_idx' = [loc_idx EXCEPT ![r] = IF pc[r] = "Y89" THEN 2 ELSE @ + 1]
  /\ current_locations' = [current_locations EXCEPT ![r] = AfterLine92(r)]
  /\ Sleep(r, 8)
  /\ pc' = [pc EXCEPT ![r] = "S94"]
  /\ UNCHANGED << trip, prompt, day_idx, out >>

\* Sleep94 with the position of the inner loop kept in one module-level
\* counter, which every request advances.
Sleep94Shared(r) ==
  /\ pc[r] \in {"Y89", "Y104"}
  /\ loc_idx[r] < Len(locations(r))
  /\ loc_idx' = [q \in Runs |-> loc_idx[r] + 1]
  /\ current_locations' = [current_locations EXCEPT ![r] = AfterLine92(r)]
  /\ Sleep(r, 8)
  /\ pc' = [pc EXCEPT ![r] = "S94"]
  /\ UNCHANGED << trip, prompt, day_idx, out >>

\* Lines 92-94: (after line 89: current_locations = []) the inner loop takes
\* the next loc; await asyncio.sleep(0.8).
Sleep94(r) ==
  /\ pc[r] \in {"Y89", "Y104"}
  /\ loc_idx[r] < Len(locations(r))
  /\ loc_idx' = [loc_idx EXCEPT ![r] = @ + 1]
  /\ current_locations' = [current_locations EXCEPT ![r] = AfterLine92(r)]
  /\ Sleep(r, 8)
  /\ pc' = [pc EXCEPT ![r] = "S94"]
  /\ UNCHANGED << trip, prompt, day_idx, out >>

\* Yield104 that also stores the accumulated list into the itinerary, as
\* day_plan['locations'] = current_locations would.
Yield104Store(r) ==
  LET acc == Append(current_locations[r], locations(r)[loc_idx[r]])
  IN /\ pc[r] = "S94"
     /\ current_locations' = [current_locations EXCEPT ![r] = acc]
     /\ trip' = [trip EXCEPT ![day_idx[r]] =
                   DayPlan(Get(@, "day").n, Get(@, "summary").s, acc)]
     /\ Yield(r, Event104(day_plan(r), locations(r)[loc_idx[r]]))
     /\ pc' = [pc EXCEPT ![r] = "Y104"]
     /\ UNCHANGED << prompt, day_idx, loc_idx, naps >>

\* Yield104 with day and summary taken from the first day_plan of the list.
Yield104FirstDay(r) ==
  /\ pc[r] = "S94"
  /\ current_locations' =
       [current_locations EXCEPT ![r] = Append(@, locations(r)[loc_idx[r]])]
  /\ Yield(r, Event104(trip[1], locations(r)[loc_idx[r]]))
  /\ pc' = [pc EXCEPT ![r] = "Y104"]
  /\ UNCHANGED << trip, prompt, day_idx, loc_idx, naps >>

\* Yield104 with the accumulated list of the day sent in place of loc.
Yield104Batch(r) ==
  /\ pc[r] = "S94"
  /\ current_locations' =
       [current_locations EXCEPT ![r] = Append(@, locations(r)[loc_idx[r]])]
  /\ Yield(r, Event104(day_plan(r),
                       PyList(Append(current_locations[r], locations(r)[loc_idx[r]]))))
  /\ pc' = [pc EXCEPT ![r] = "Y104"]
  /\ UNCHANGED << trip, prompt, day_idx, loc_idx, naps >>

\* Lines 95-104: the sleep is over; loc is appended and its data event emitted.
Yield104(r) ==
  /\ pc[r] = "S94"
  /\ current_locations' =
       [current_locations EXCEPT ![r] = Append(@, locations(r)[loc_idx[r]])]
  /\ Yield(r, Event104(day_plan(r), locations(r)[loc_idx[r]]))
  /\ pc' = [pc EXCEPT ![r] = "Y104"]
  /\ UNCHANGED << trip, prompt, day_idx, loc_idx, naps >>

\* Yield106 inside the outer loop: the completion event may follow any day.
Yield106Early(r) ==
  /\ InnerLoopOver(r)
  /\ day_idx[r] >= 1
  /\ current_locations' = [current_locations EXCEPT ![r] = AfterLine92(r)]
  /\ Yield(r, Event106)
  /\ pc' = [pc EXCEPT ![r] = "Y106"]
  /\ UNCHANGED << trip, prompt, day_idx, loc_idx, naps >>

\* Yield106 with the completion event emitted twice.
Yield106Twice(r) ==
  /\ InnerLoopOver(r)
  /\ day_idx[r] = Len(trip)
  /\ current_locations' = [current_locations EXCEPT ![r] = AfterLine92(r)]
  /\ out' = [out EXCEPT ![r] = @ \o << Event106, Event106 >>]
  /\ pc' = [pc EXCEPT ![r] = "Y106"]
  /\ UNCHANGED << trip, prompt, day_idx, loc_idx, naps >>

\* Line 106: the outer loop is over; the completion status event.
Yield106(r) ==
  /\ InnerLoopOver(r)
  /\ day_idx[r] = Len(trip)
  /\ current_locations' = [current_locations EXCEPT ![r] = AfterLine92(r)]
  /\ Yield(r, Event106)
  /\ pc' = [pc EXCEPT ![r] = "Y106"]
  /\ UNCHANGED << trip, prompt, day_idx, loc_idx, naps >>

\* The end of the function body: the generator is exhausted, the response ends.
Return(r) ==
  /\ pc[r] = "Y106"
  /\ pc' = [pc EXCEPT ![r] = "done"]
  /\ UNCHANGED << trip, prompt, day_idx, loc_idx, current_locations, out, naps >>

Suspended == {"created", "Y72", "S73", "Y75", "S76", "Y80", "S85",
              "Y89", "S94", "Y104", "Y106"}

\* Close with a generator that emits the completion event as it is cancelled,
\* as a yield in a finally block would.
CloseFinally(r) ==
  /\ pc[r] \in Suspended
  /\ Yield(r, Event106)
  /\ pc' = [pc EXCEPT ![r] = "closed"]
  /\ UNCHANGED << trip, prompt, day_idx, loc_idx, current_locations, naps >>

\* The caller closes the connection: the StreamingResponse of line 117 stops
\* iterating and the generator is cancelled at the yield or sleep it is
\* suspended at.  The body of ai_stream_generator has no try/except/finally,
\* so nothing of it runs any more.
Close(r) ==
  /\ pc[r] \in Suspended
  /\ pc' = [pc EXCEPT ![r] = "closed"]
  /\ UNCHANGED << trip, prompt, day_idx, loc_idx, current_locations, out, naps >>

\* One stretch of the generator of run r.
Step(r) ==
  \/ Yield72(r) \/ Sleep73(r) \/ Yield75(r) \/ Sleep76(r) \/ Yield80(r)
  \/ Sleep85(r) \/ Yield89(r) \/ Sleep94(r) \/ Yield104(r) \/ Yield106(r)
  \/ Return(r)

Next ==
  \E r \in Runs :
    \/ plan_trip(r, Prompt(r))
    \/ Step(r)
    \/ Close(r)

Spec == Init /\ [][Next]_vars

\* The event loop runs every generator that can run: a sleep ends, and the
\* response takes the next line, unless the caller closes the connection.
FairSpec == Spec /\ \A r \in Runs : WF_vars(Step(r))

(***************************************************************************)
(* What a reader of the response body sees.                                *)
(***************************************************************************)
RECURSIVE ParseLines(_, _)
ParseLines(lines, i) ==
  IF i > Len(lines) THEN << >>
  ELSE << json_loads(lines[i]) >> \o ParseLines(lines, i + 1)

\* The events of run r so far, each parsed from its line.
Events(r) == ParseLines(out[r], 1)

Kind(e) == Get(e, "type").s

IsData(e) == Kind(e) = "data"

IsStatus(e) == Kind(e) = "status"

IsControl(e) == Kind(e) = "control"

DayOf(e) == Get(e, "day").n

RECURSIVE KindsOf(_, _)
KindsOf(evs, i) == IF i > Len(evs) THEN << >> ELSE << Kind(evs[i]) >> \o KindsOf(evs, i + 1)

\* The data events of run r, in emission order.
DataEvents(r) == SelectSeq(Events(r), IsData)

\* The baked itinerary as the source text gives it.
Days == 1..Len(MOCK_TOKYO_TRIP)

DayNumbers == [d \in Days |-> Get(MOCK_TOKYO_TRIP[d], "day").n]

\* The status event announcing each day, and the completion event, as read.
DayAnnouncement == [d \in Days |-> json_loads(Event89(MOCK_TOKYO_TRIP[d]))]

Completion == json_loads(Event106)

AnnouncesDay(e, d) == e = DayAnnouncement[d]

IsDayStatus(e) == \E d \in Days : AnnouncesDay(e, d)

IsCompletion(e) == e = Completion

\* Every line ends with a newline and is one JSON document.
WellFormed(line) ==
  /\ line[Len(line)] = NL
  /\ ParseValue(line, 1).next = Len(line)

\* The location fields of the data events evs whose day field is n.
LocationsEmitted(evs, n) ==
  LET OfDay(e) == DayOf(e) = n
      sel == SelectSeq(evs, OfDay)
  IN [i \in 1..Len(sel) |-> Get(sel[i], "location")]

RECURSIVE TotalLocations(_)
\* The number of locations of the first d days of the baked itinerary.
TotalLocations(d) ==
  IF d = 0 THEN 0
  ELSE Len(Get(MOCK_TOKYO_TRIP[d], "locations")) + TotalLocations(d - 1)

\* C1: any two complete runs, whatever their prompts, have emitted the same
\* lines, line for line and token for token.
C1_PromptIndependent ==
  \A r1, r2 \in Runs :
    pc[r1] = "done" /\ pc[r2] = "done" => out[r1] = out[r2]

\* Two complete runs of different prompts, one of them the empty string.
C1_Witness ==
  /\ pc[1] = "done" /\ pc[2] = "done"
  /\ prompt[1] = "" /\ prompt[2] = "Tokyo 3 days"

\* C2: a complete run has emitted exactly 12 events, of kinds status, status,
\* control, status (day 1), data x 3, status (day 2), data x 3, status
\* (completion), and nothing else.
C2_TwelveEvents ==
  \A r \in Runs :
    pc[r] = "done" =>
      LET ev == Events(r) IN
      /\ Len(out[r]) = 12
      /\ \A i \in 1..Len(out[r]) : WellFormed(out[r][i])
      /\ KindsOf(ev, 1) = << "status", "status", "control",
                             "status", "data", "data", "data",
                             "status", "data", "data", "data", "status" >>
      /\ AnnouncesDay(ev[4], 1)
      /\ AnnouncesDay(ev[8], 2)
      /\ IsCompletion(ev[12])

C2_Witness == \E r \in Runs : pc[r] = "done" /\ prompt[r] = "Tokyo 3 days"

\* C3: of the events emitted so far, the first and the second are status
\* events that announce no day, and the third is the control event with action
\* fly_to: no data event and no per-day status event comes before it.
C3_Preamble ==
  \A r \in Runs :
    LET ev == Events(r) IN
    \A i \in 1..Len(ev) :
      /\ i <= 2 => IsStatus(ev[i]) /\ ~IsDayStatus(ev[i])
      /\ i = 3 => IsControl(ev[i]) /\ Get(ev[i], "action") = PyStr("fly_to")

C3_Witness == \E r \in Runs : Len(out[r]) >= 3 /\ pc[r] = "closed"

\* C4: every data event of day d comes after the status event announcing day
\* d and before any status event announcing a later day and before the
\* completion event; in a complete run the status event of the next day (the
\* completion event, for the last day) does come after it.
C4_DataWithinItsDay ==
  \A r \in Runs :
    LET ev == Events(r) IN
    \A i \in 1..Len(ev) :
      IsData(ev[i]) =>
        \E d \in Days :
          /\ DayNumbers[d] = DayOf(ev[i])
          /\ \E j \in 1..(i - 1) : AnnouncesDay(ev[j], d)
          /\ \A k \in 1..(i - 1) :
               /\ ~IsCompletion(ev[k])
               /\ \A d2 \in Days : d2 > d => ~AnnouncesDay(ev[k], d2)
          /\ pc[r] = "done" =>
               \E k \in (i + 1)..Len(ev) :
                 IF d + 1 \in Days THEN AnnouncesDay(ev[k], d + 1)
                 ELSE IsCompletion(ev[k])

\* A complete run beside one interrupted between the data events of day 2.
C4_Witness ==
  /\ pc[1] = "done"
  /\ pc[2] = "closed" /\ Len(out[2]) = 10

\* C5: a complete run has emitted as many data events as the baked itinerary
\* has locations over all its days: 6 = 3 + 3.
C5_DataCount ==
  \A r \in Runs :
    pc[r] = "done" =>
      LET n == Len(DataEvents(r)) IN
      /\ n = TotalLocations(Len(MOCK_TOKYO_TRIP))
      /\ n = 6

C5_Witness == \E r \in Runs : pc[r] = "done" /\ Len(DataEvents(r)) > 0

\* C6: in a complete run the location fields of the data events of each day,
\* read back from the lines in emission order, are that day's locations of
\* the baked itinerary, in its order; no data event is of another day.
C6_RoundTrip ==
  \A r \in Runs :
    pc[r] = "done" =>
      LET data == DataEvents(r) IN
      /\ \A d \in Days :
           LocationsEmitted(data, DayNumbers[d]) = Get(MOCK_TOKYO_TRIP[d], "locations")
      /\ \A i \in 1..Len(data) : \E d \in Days : DayOf(data[i]) = DayNumbers[d]

C6_Witness ==
  \E r \in Runs : pc[r] = "done" /\ Len(LocationsEmitted(DataEvents(r), 2)) = 3

\* C7: at every point of a run the day fields of the data events emitted so
\* far never decrease, each is a day number of the baked itinerary, and those
\* day numbers are 1, 2.
C7_DaysNonDecreasing ==
  /\ DayNumbers = << 1, 2 >>
  /\ \A r \in Runs :
       LET data == DataEvents(r) IN
       \A j \in 1..Len(data) :
         /\ \E d \in Days : DayOf(data[j]) = DayNumbers[d]
         /\ j > 1 => DayOf(data[j - 1]) <= DayOf(data[j])

\* A run in the middle of day 2, with data events of both days emitted.
C7_Witness ==
  \E r \in Runs :
    /\ pc[r] = "S94"
    /\ Len(DataEvents(r)) = 4
    /\ DayOf(DataEvents(r)[1]) = 1 /\ DayOf(DataEvents(r)[4]) = 2

RECURSIVE DayLines(_, _)
\* The data lines of day d from location i on, as the script has them.
DayLines(d, i) ==
  IF i > Len(Get(MOCK_TOKYO_TRIP[d], "locations")) THEN << >>
  ELSE << Event104(MOCK_TOKYO_TRIP[d], Get(MOCK_TOKYO_TRIP[d], "locations")[i]) >>
       \o DayLines(d, i + 1)

RECURSIVE ItineraryLines(_)
ItineraryLines(d) ==
  IF d > Len(MOCK_TOKYO_TRIP) THEN << >>
  ELSE << Event89(MOCK_TOKYO_TRIP[d]) >> \o DayLines(d, 1) \o ItineraryLines(d + 1)

\* The full scripted sequence: what one request, running alone, is sent.
FullScript == << Event72, Event75, Event80 >> \o ItineraryLines(1) \o << Event106 >>

IsPrefix(s, t) == Len(s) <= Len(t) /\ s = SubSeq(t, 1, Len(s))

\* All that belongs to request r.
Local(r) ==
  << pc[r], prompt[r], day_idx[r], loc_idx[r], current_locations[r], out[r], naps[r] >>

Ended(r) == pc[r] \in {"done", "closed"}

\* The completion event is emitted at most once, as the last event so far and
\* after the data events of every location of every day.
CompletionOnceAndLast(r) ==
  LET ev == Events(r) IN
  \A i \in 1..Len(ev) :
    IsCompletion(ev[i]) =>
      /\ i = Len(ev)
      /\ Len(SelectSeq(ev, IsData)) = TotalLocations(Len(MOCK_TOKYO_TRIP))

\* C8: a run that was started and is not interrupted terminates; when it has,
\* its last event is the completion event; the completion event is emitted
\* at most once and after every data event of every day; and a run that has
\* terminated emits nothing more and stays terminated.
C8_TerminatesWithCompletion ==
  /\ \A r \in Runs : (pc[r] = "created") ~> Ended(r)
  /\ [](\A r \in Runs :
          /\ CompletionOnceAndLast(r)
          /\ pc[r] = "done" => out[r] # << >> /\ IsCompletion(Events(r)[Len(out[r])]))
  /\ [][\A r \in Runs : pc[r] = "done" => Local(r)' = Local(r)]_vars

C8_Witness ==
  \E r \in Runs : pc[r] = "done" /\ IsCompletion(Events(r)[Len(out[r])])

\* C9: whatever the interleaving of the requests, every request has been sent
\* a prefix of the full scripted sequence and, once complete, all of it; and
\* every step changes what belongs to one request only, and never the list
\* MOCK_TOKYO_TRIP that all of them read.
C9_Isolated ==
  /\ [](\A r \in Runs :
          /\ IsPrefix(out[r], FullScript)
          /\ pc[r] = "done" => out[r] = FullScript)
  /\ [][/\ trip' = trip
        /\ \E r \in Runs : \A q \in Runs \ {r} : Local(q)' = Local(q)]_vars

\* Two requests in flight together, at different places of the script.
C9_Witness ==
  /\ pc[1] = "S94" /\ Len(out[1]) = 9
  /\ pc[2] = "Y80"

\* C10: the step that closes a request's connection emits nothing and changes
\* nothing of any other request; a closed request stays as it is, so what it
\* was sent is a prefix of the full scripted sequence, possibly empty; and
\* every other request can still take its next step, and a new request can
\* still be accepted.
C10_CloseStopsEmission ==
  /\ [](\A r \in Runs : pc[r] = "closed" => IsPrefix(out[r], FullScript))
  /\ [][\A r \in Runs :
          /\ pc'[r] = "closed" => out'[r] = out[r]
          /\ pc[r] = "closed" => Local(r)' = Local(r)
          /\ pc[r] # "closed" /\ pc'[r] = "closed" =>
               \A q \in Runs \ {r} : Local(q)' = Local(q)]_vars
  /\ [](\A r, q \in Runs :
          pc[r] = "closed" =>
            /\ pc[q] \in Suspended => ENABLED Step(q)
            /\ pc[q] = "idle" => ENABLED plan_trip(q, Prompt(q)))

\* A request closed in the middle of day 1, beside one that went on to the end.
C10_Witness ==
  /\ pc[1] = "closed" /\ Len(out[1]) = 5
  /\ pc[2] = "done"

(***************************************************************************)
(* The endpoint invoked again and again, one request after the other:      *)
(* request r is made once every request before it is over (complete or     *)
(* interrupted), and the requests after it have not been made.             *)
(***************************************************************************)
PreviousRunsOver(r) ==
  \A q \in Runs : IF q < r THEN Ended(q) ELSE pc[q] = "idle"

SeqNext ==
  \E r \in Runs :
    \/ PreviousRunsOver(r) /\ plan_trip(r, Prompt(r))
    \/ Step(r)
    \/ Close(r)

SeqSpec == Init /\ [][SeqNext]_vars

\* C11: a request made after an earlier one is over, wherever that one ended,
\* begins with nothing of it: no line sent, no loop begun, no suspension; its
\* first line is the first scripted line, what it is sent is a prefix of the
\* full scripted sequence, and once complete it is the whole of it, the same
\* lines as the complete first request.
C11_ReinvocationReplays ==
  \A r \in Runs :
    /\ pc[r] = "created" =>
         /\ out[r] = << >> /\ naps[r] = << >>
         /\ day_idx[r] = 0 /\ loc_idx[r] = 0 /\ current_locations[r] = << >>
    /\ out[r] # << >> => out[r][1] = Event72
    /\ IsPrefix(out[r], FullScript)
    /\ pc[r] = "done" => out[r] = FullScript
    /\ pc[r] = "done" /\ pc[1] = "done" => out[r] = out[1]

\* A request interrupted in day 1, then a second one run to its end.
C11_Witness ==
  /\ pc[1] = "closed" /\ Len(out[1]) = 6
  /\ pc[2] = "done" /\ Len(out[2]) = 12

\* The keys of a dict, in its order.
Keys(d) == [i \in 1..Len(d.items) |-> d.items[i][1]]

\* loc is one Location of the baked itinerary.
IsItineraryLocation(loc) ==
  \E d \in Days :
    \E i \in 1..Len(Get(MOCK_TOKYO_TRIP[d], "locations")) :
      loc = Get(MOCK_TOKYO_TRIP[d], "locations")[i]

AnnouncementText(n, summary) ==
  "\\u6b63\\u5728\\u898f\\u5283\\u7b2c " \o ToString(n) \o " \\u5929\\uff1a" \o summary

\* The position of the last status event of evs before position i (0: none).
LastStatusBefore(evs, i) ==
  LET S == {j \in 1..(i - 1) : IsStatus(evs[j])}
  IN IF S = {} THEN 0 ELSE CHOOSE j \in S : \A k \in S : k <= j

\* C13: for every data event there is a day of the itinerary whose locations
\* contain the event's location and whose day number and summary are the
\* event's day and summary fields; and the status event that most recently
\* precedes the data event is the announcement of that day number and summary.
C13_DayAndSummaryOfItsDay ==
  \A r \in Runs :
    LET ev == Events(r) IN
    \A i \in 1..Len(ev) :
      IsData(ev[i]) =>
        LET j == LastStatusBefore(ev, i) IN
        /\ j > 0
        /\ Keys(ev[j]) = << "type", "content" >>
        /\ \E d \in Days :
             LET dp == MOCK_TOKYO_TRIP[d] IN
             /\ Get(ev[i], "day") = Get(dp, "day")
             /\ Get(ev[i], "summary") = Get(dp, "summary")
             /\ \E n \in 1..Len(Get(dp, "locations")) :
                  Get(ev[i], "location") = Get(dp, "locations")[n]
             /\ Get(ev[j], "content") =
                  PyStr(AnnouncementText(Get(dp, "day").n, Get(dp, "summary").s))

\* The first data event of day 2 has just been sent.
C13_Witness ==
  \E r \in Runs : pc[r] = "Y104" /\ day_idx[r] = 2 /\ loc_idx[r] = 1

\* The places where the generator is inside asyncio.sleep.
Sleeping == {"S73", "S76", "S85", "S94"}

\* C14: the suspensions of a run are in the order of the events, at most one
\* between two consecutive events.  A suspension begun after the a-th event is
\* of 1 unit (10 tenths) if that event is the first or the second status
\* event, of 1.5 units if it is the control event, and otherwise of 0.8 units,
\* begun after a per-day status event or a data event and followed by a data
\* event and by nothing else.  Between the a-th event and the next there is a
\* suspension exactly if a is 1 or 2, the a-th event is the control event, or
\* the next event is a data event: so a per-day status event is followed by a
\* suspension before the day's first data event, and a status event that
\* follows a data event (the next day's, or the completion) follows it with no
\* suspension.  While the request is open, the generator is inside a sleep
\* exactly if its last suspension was begun after its latest event: no event
\* is emitted before the suspension ahead of it is over.
C14_PacingPoints ==
  \A r \in Runs :
    LET ev == Events(r)
        np == naps[r]
        n == Len(ev)
    IN /\ \A i \in 1..(Len(np) - 1) : np[i].after < np[i + 1].after
       /\ \A i \in 1..Len(np) :
            LET a == np[i].after IN
            /\ a \in 1..n
            /\ CASE a \in {1, 2} -> IsStatus(ev[a]) /\ np[i].delay = 10
                 [] IsControl(ev[a]) -> np[i].delay = 15
                 [] OTHER ->
                      /\ np[i].delay = 8
                      /\ IsDayStatus(ev[a]) \/ IsData(ev[a])
                      /\ a < n => IsData(ev[a + 1])
       /\ \A a \in 1..(n - 1) :
            (\E i \in 1..Len(np) : np[i].after = a)
              <=> (a \in {1, 2} \/ IsControl(ev[a]) \/ IsData(ev[a + 1]))
       /\ pc[r] # "closed" =>
            (pc[r] \in Sleeping <=> (np # << >> /\ np[Len(np)].after = n))

\* A complete run with its nine suspensions.
C14_Witness ==
  \E r \in Runs : pc[r] = "done" /\ Len(naps[r]) = 9 /\ Len(out[r]) = 12

RECURSIVE TotalDelay(_)
\* The sum of the delays of a sequence of suspensions, in tenths of a unit.
TotalDelay(np) ==
  IF np = << >> THEN 0 ELSE np[1].delay + TotalDelay(Tail(np))

\* C15: the suspensions of a complete run add up to 2 + 1.5 + 0.8 x (number
\* of locations of the itinerary) time units, which is 83 tenths for the 6
\* locations of the baked itinerary; a run that is not complete has not paused
\* longer; and two complete runs have paused equally long whatever their
\* prompts.
C15_TotalPacing ==
  /\ TotalLocations(Len(MOCK_TOKYO_TRIP)) = 6
  /\ \A r \in Runs :
       /\ TotalDelay(naps[r]) <= 83
       /\ pc[r] = "done" =>
            /\ TotalDelay(naps[r]) = 20 + 15 + 8 * TotalLocations(Len(MOCK_TOKYO_TRIP))
            /\ TotalDelay(naps[r]) = 83
  /\ \A r1, r2 \in Runs :
       pc[r1] = "done" /\ pc[r2] = "done" =>
         TotalDelay(naps[r1]) = TotalDelay(naps[r2])

\* Two complete runs of different prompts.
C15_Witness ==
  \E r1, r2 \in Runs :
    /\ pc[r1] = "done" /\ pc[r2] = "done"
    /\ prompt[r1] # prompt[r2]
    /\ TotalDelay(naps[r1]) = 83

\* C16: the itinerary is at every moment the one baked in at lines 45-64, and
\* every step leaves it as it is; a step that writes to a response stream
\* or to an accumulator writes to those of one request, which is open and
\* running, only appends one line to the stream, and leaves the streams and
\* accumulators of all other requests as they are.
C16_ItineraryUnchanged ==
  /\ [](trip = MOCK_TOKYO_TRIP)
  /\ [][/\ trip' = MOCK_TOKYO_TRIP
        /\ \A r \in Runs :
             out'[r] # out[r] \/ current_locations'[r] # current_locations[r] =>
               /\ pc[r] \in Suspended
               /\ pc'[r] # "closed"
               /\ IsPrefix(out[r], out'[r]) /\ Len(out'[r]) <= Len(out[r]) + 1
               /\ \A q \in Runs \ {r} :
                    /\ out'[q] = out[q]
                    /\ current_locations'[q] = current_locations[q]]_vars

\* One run complete and one interrupted in its second day.
C16_Witness ==
  /\ pc[1] = "done"
  /\ pc[2] = "closed" /\ Len(out[2]) = 9
  /\ trip = MOCK_TOKYO_TRIP

====
